---- MODULE Spec2Model ----
(***************************************************************************)
(* Candidate extraction and aggregation of cmd/batch/trend_discovery.go:   *)
(* isStorePage, extractStoreName, fetchStoreLinksFromMatome,               *)
(* fetchLinksFromListingPage, SearchBrave and the batch driver main.       *)
(***************************************************************************)
EXTENDS Integers, Sequences, FiniteSets, TLC

(***************************************************************************)
(* Text.  A Go string is modelled as the sequence of its characters, each  *)
(* character a one-character string.  The classes below are the Unicode    *)
(* classes the regular expressions of extractStoreName use, restricted to  *)
(* the characters that occur in the model's texts and patterns.            *)
(***************************************************************************)
LowerLetters == {"a", "b", "c", "d", "e", "f", "g", "h", "i", "j", "k", "l", "m", "n", "o", "p", "q", "r", "s", "t", "u", "v", "w", "x",
    "y", "z"}
UpperLetters == {"A", "B", "C", "D", "E", "F", "G", "H", "I", "J", "K", "L", "M", "N", "O", "P", "Q", "R", "S", "T", "U", "V", "W", "X",
    "Y", "Z"}
Digits == {"0", "1", "2", "3", "4", "5", "6", "7", "8", "9"}
\* \w of Go's regexp (RE2): ASCII letters, digits and the underscore.
WordChars == LowerLetters \cup UpperLetters \cup Digits \cup {"_"}
\* \s of Go's regexp (RE2): tab, newline, form feed, carriage return, space.
SpaceChars == {" ", "\t", "\n", "\f", "\r"}
\* Characters of one byte in UTF-8 that are neither \w nor \s.
AsciiPunct == {"|", "-", "/", "(", ")", "[", "]", ".", ",", "'", "!", ";", "\"", ":", "&", "?", "#", "+", "*"}
Ascii == WordChars \cup SpaceChars \cup AsciiPunct
\* \p{Hiragana} (U+3041..U+3096)
Hiragana == {"U+3041", "U+3042", "U+3043", "U+3044", "U+3045", "U+3046", "U+3047", "U+3048", "U+3049", "U+304A", "U+304B", "U+304C", "U+304D", "U+304E", "U+304F", "U+3050", "U+3051", "U+3052", "U+3053", "U+3054", "U+3055", "U+3056", "U+3057", "U+3058",
    "U+3059", "U+305A", "U+305B", "U+305C", "U+305D", "U+305E", "U+305F", "U+3060", "U+3061", "U+3062", "U+3063", "U+3064", "U+3065", "U+3066", "U+3067", "U+3068", "U+3069", "U+306A", "U+306B", "U+306C", "U+306D", "U+306E", "U+306F", "U+3070",
    "U+3071", "U+3072", "U+3073", "U+3074", "U+3075", "U+3076", "U+3077", "U+3078", "U+3079", "U+307A", "U+307B", "U+307C", "U+307D", "U+307E", "U+307F", "U+3080", "U+3081", "U+3082", "U+3083", "U+3084", "U+3085", "U+3086", "U+3087", "U+3088",
    "U+3089", "U+308A", "U+308B", "U+308C", "U+308D", "U+308E", "U+308F", "U+3090", "U+3091", "U+3092", "U+3093", "U+3094", "U+3095", "U+3096"}
\* \p{Katakana} (U+30A1..U+30FA); the long-vowel mark U+30FC is not in it.
Katakana == {"U+30A1", "U+30A2", "U+30A3", "U+30A4", "U+30A5", "U+30A6", "U+30A7", "U+30A8", "U+30A9", "U+30AA", "U+30AB", "U+30AC", "U+30AD", "U+30AE", "U+30AF", "U+30B0", "U+30B1", "U+30B2", "U+30B3", "U+30B4", "U+30B5", "U+30B6", "U+30B7", "U+30B8",
    "U+30B9", "U+30BA", "U+30BB", "U+30BC", "U+30BD", "U+30BE", "U+30BF", "U+30C0", "U+30C1", "U+30C2", "U+30C3", "U+30C4", "U+30C5", "U+30C6", "U+30C7", "U+30C8", "U+30C9", "U+30CA", "U+30CB", "U+30CC", "U+30CD", "U+30CE", "U+30CF", "U+30D0",
    "U+30D1", "U+30D2", "U+30D3", "U+30D4", "U+30D5", "U+30D6", "U+30D7", "U+30D8", "U+30D9", "U+30DA", "U+30DB", "U+30DC", "U+30DD", "U+30DE", "U+30DF", "U+30E0", "U+30E1", "U+30E2", "U+30E3", "U+30E4", "U+30E5", "U+30E6", "U+30E7", "U+30E8",
    "U+30E9", "U+30EA", "U+30EB", "U+30EC", "U+30ED", "U+30EE", "U+30EF", "U+30F0", "U+30F1", "U+30F2", "U+30F3", "U+30F4", "U+30F5", "U+30F6", "U+30F7", "U+30F8", "U+30F9", "U+30FA"}
\* \p{Han}: the ideographs of the stop list, the patterns and the model's texts.
Han == {"U+4E0A", "U+4EBA", "U+5075", "U+51E6", "U+5357", "U+53F8", "U+5409", "U+540D", "U+541B", "U+548C", "U+574A", "U+5927", "U+592A", "U+5B9A", "U+5BB6", "U+5BFF", "U+5C06", "U+5C4B", "U+5E4C", "U+5E97", "U+623F", "U+63A2", "U+65B0", "U+65E5",
    "U+66AE", "U+6700", "U+672C", "U+69D8", "U+6BDB", "U+6C0F", "U+6C17", "U+6D77", "U+7121", "U+7248", "U+7384", "U+7530", "U+7A32", "U+7F8E", "U+8336", "U+8535", "U+8ED2", "U+9078", "U+90CE", "U+9152", "U+91CC", "U+91CE", "U+98DF", "U+990A",
    "U+9BA8", "U+9EA6", "U+9EBA"}
\* Characters of four bytes in UTF-8 (outside the basic plane).
FourByteChars == {"U+1F35C"}

specificUsers == <<
      <<"U+7A32", "U+6BDB", "U+5C4B">>,
      <<"m", "a", "r", "o", "-", "j">>,
      <<"U+306F", "U+3089", "U+307A", "U+3053", "U+5927", "U+5C06">>,
      <<"U+30A2", "U+30E6", "U+30DC", "U+30EF", "U+30F3", "U+FF01">>,
      <<"k", "o", "m", "e", "d", "a", "r", "i", "a", "n">>,
      <<"U+3082", "U+306E", "U+3054", "U+3053", "U+308D">>,
      <<"n", "o", "b", "u", "t", "a", "-", "n", "o", "b", "u">>,
      <<"r", "a", "m", "e", "n", "-", "k", "i", "n", "g">>,
      <<"U+30B0", "U+30EB", "U+30DE", "U+30F3">>,
      <<"U+98DF", "U+3044", "U+3057", "U+3093", "U+574A">>,
      <<"U+98DF", "U+3079", "U+30ED", "U+30B0", "U+592A", "U+90CE">>,
      <<"U+30EC", "U+30D3", "U+30E5", "U+30A2", "U+30FC">>,
      <<"U+30EC", "U+30D3", "U+30E5", "U+30A2", "U+30FC", "U+30DE", "U+30B9", "U+30BF", "U+30FC">>,
      <<"U+7F8E", "U+98DF", "U+5BB6">>,
      <<"U+30B0", "U+30EB", "U+30E1", "U+30AD", "U+30F3", "U+30B0">>,
      <<"U+30B0", "U+30EB", "U+30E1", "U+63A2", "U+5075">>,
      <<"U+98DF", "U+3079", "U+30ED", "U+30B0", "U+30EC", "U+30D3", "U+30E5", "U+30A2", "U+30FC">>,
      <<"U+30A2", "U+30E6", "U+30DC", "U+30EF", "U+30F3">>,
      <<"h", "o", "n", "n", "e", "s", "a", "n">>,
      <<"t", "a", "n", "i", "y">>,
      <<"d", "r", "a", "g", "o", "n", "f", "l", "y", "8", "8", "1", "0">>,
      <<"r", "o", "p", "e", "f", "i", "s", "h">>,
      <<"U+5409", "U+7530", "R">>,
      <<"W", "i", "n", "e", ",", " ", "w", "o", "m", "e", "n", " ", "a", "n", "'", " ", "s", "o", "n", "g">>,
      <<"S", "h", "o", "e", "b", "i", "l", "l">>,
      <<"U+30AF", "U+30B9", "U+30AF", "U+30B9">>,
      <<"U+30C8", "U+30AB", "U+30C8", "U+30F3", "U+30C8", "U+30F3", "U+30AC", "U+30E9", "U+30B7">>,
      <<"U+3073", "U+3057", "U+304F", "U+308C", "U+305F">>,
      <<"U+304A", "U+3082", "U+3072", "U+3067", "U+5B9A", "U+98DF">>,
      <<"U+305F", "U+3051", "1", "0", "2", "5">>,
      <<"U+30D8", "U+30EB">>,
      <<"U+305F", "U+3089", "U+304F", " ", "U+65E5", "U+66AE", "U+91CC", "U+5E97">>,
      <<"U+30CE", "U+30D6", "U+30D2", "U+30ED", "U+FF20", "U+4E0A", "U+91CE">>,
      <<"U+990A", "U+548C", "U+8ED2">>,
      <<"U+30A4", "U+30C9", "U+30AB", "U+30E4", "U+FF17", "U+FF19", "U+FF17">>,
      <<"U+30B7", "U+30EB", "U+30AF", "U+30ED", "U+30FC", "U+30C9">>,
      <<"U+305F", "U+3051", "U+3068", "U+3093", "U+305F", "U+3093", "U+305F">>,
      <<"U+30AB", "U+30EC", "U+30FC", "U+304A", "U+3058", "U+3055", "U+3093", "U+FF3C", "U+FF0F">>,
      <<"U+3086", "U+3059", "U+3051">>,
      <<"U+7384", "U+6D77", "U+5BFF", "U+53F8", " ", "U+672C", "U+5E97">>,
      <<"U+5357", "U+5E4C">> >>

(***************************************************************************)
(* The string functions of Go's strings and regexp packages that the code  *)
(* calls, on sequences of characters.                                      *)
(***************************************************************************)
\* s[at:] starts with p (at counts from 1)
HasPrefixAt(s, p, at) ==
    /\ at >= 1
    /\ at + Len(p) - 1 <= Len(s)
    /\ \A k \in 1..Len(p) : s[at + k - 1] = p[k]

\* strings.Contains(s, p)
Contains(s, p) == \E at \in 1..(Len(s) - Len(p) + 1) : HasPrefixAt(s, p, at)

\* strings.Index(s, p), counted from 1; 0 when p does not occur
IndexOf(s, p) ==
    IF Contains(s, p)
    THEN CHOOSE at \in 1..(Len(s) - Len(p) + 1) :
            HasPrefixAt(s, p, at) /\ \A j \in 1..(at - 1) : ~HasPrefixAt(s, p, j)
    ELSE 0

\* strings.HasSuffix(s, p)
HasSuffix(s, p) == Len(p) <= Len(s) /\ HasPrefixAt(s, p, Len(s) - Len(p) + 1)

\* strings.Split(s, sep)[0] for a separator that occurs in s
SplitFirst(s, sep) == SubSeq(s, 1, IndexOf(s, sep) - 1)

\* Leftmost, non-overlapping replacement: M(s, at) is the length of the match
\* that starts at position at of s, 0 when none starts there (no pattern of
\* the code matches the empty string).
ReplaceMatches(M(_, _), s, new) ==
    IF s = <<>> THEN <<>>
    ELSE LET out[at \in 1..(Len(s) + 1)] ==
                 IF at > Len(s) THEN <<>>
                 ELSE LET n == M(s, at)
                      IN  IF n > 0 THEN new \o out[at + n]
                                   ELSE <<s[at]>> \o out[at + 1]
         IN  out[1]

LitLen(s, at, p) == IF HasPrefixAt(s, p, at) THEN Len(p) ELSE 0

\* strings.ReplaceAll(s, old, new), old non-empty
ReplaceAll(s, old, new) == ReplaceMatches(LAMBDA t, at : LitLen(t, at, old), s, new)

\* The number of characters of class C that s has from position at on.
RunLen(s, at, C) ==
    IF at > Len(s) \/ s[at] \notin C THEN 0
    ELSE LET stop == {j \in at..Len(s) : s[j] \notin C}
         IN  IF stop = {} THEN Len(s) - at + 1
             ELSE (CHOOSE j \in stop : \A k \in stop : j <= k) - at

\* The length of the first alternative of alts (a sequence of strings) that
\* s has at position at; 0 when none.
AltLen(s, at, alts) ==
    LET hit == {a \in 1..Len(alts) : HasPrefixAt(s, alts[a], at)}
    IN  IF hit = {} THEN 0
        ELSE Len(alts[CHOOSE a \in hit : \A b \in hit : a <= b])

\* \b of RE2 at the gap before position at: exactly one side is a \w character.
IsWordAt(s, at) == at >= 1 /\ at <= Len(s) /\ s[at] \in WordChars
WordBoundary(s, at) == IsWordAt(s, at - 1) # IsWordAt(s, at)

\* open [^close]* close, at position at: up to the first close after the open.
EncloseLen(s, at, open, close) ==
    IF ~HasPrefixAt(s, <<open>>, at) THEN 0
    ELSE LET ends == {j \in (at + 1)..Len(s) : s[j] = close}
         IN  IF ends = {} THEN 0
             ELSE (CHOOSE j \in ends : \A k \in ends : j <= k) - at + 1

\* `\s*` followed by a pattern of length Inner(s, j) at j: the white space is
\* part of the match only when the pattern follows it.
AfterSpaces(Inner(_, _), s, at) ==
    LET ws == RunLen(s, at, SpaceChars)
        n  == Inner(s, at + ws)
    IN  IF n > 0 THEN ws + n ELSE 0

\* `\s*(?:さん|氏|様|ちゃん|君)\s*`
honorifics == << <<"U+3055", "U+3093">>, <<"U+6C0F">>, <<"U+69D8">>, <<"U+3061", "U+3083", "U+3093">>, <<"U+541B">> >>
HonorificLen(s, at) ==
    LET n == AfterSpaces(LAMBDA t, j : AltLen(t, j, honorifics), s, at)
    IN  IF n > 0 THEN n + RunLen(s, at + n, SpaceChars) ELSE 0

\* `\b[a-zA-Z0-9_]{3,15}\b`: a whole run of \w characters, 3 to 15 long
\* (the class of the code is \w itself).
HandleLen(s, at) ==
    LET n == RunLen(s, at, WordChars)
    IN  IF WordBoundary(s, at) /\ n >= 3 /\ n <= 15 THEN n ELSE 0

\* `\b(?:イコット|クチコミ|食べログ)\b`
boundedWords == << <<"U+30A4", "U+30B3", "U+30C3", "U+30C8">>, <<"U+30AF", "U+30C1", "U+30B3", "U+30DF">>, <<"U+98DF", "U+3079", "U+30ED", "U+30B0">> >>
BoundedWordLen(s, at) ==
    LET n == AltLen(s, at, boundedWords)
    IN  IF n > 0 /\ WordBoundary(s, at) /\ WordBoundary(s, at + n) THEN n ELSE 0

\* `人気店\d*選`
PopularLen(s, at) ==
    IF ~HasPrefixAt(s, <<"U+4EBA", "U+6C17", "U+5E97">>, at) THEN 0
    ELSE LET d == RunLen(s, at + 3, Digits)
         IN  IF HasPrefixAt(s, <<"U+9078">>, at + 3 + d) THEN 3 + d + 1 ELSE 0

\* `の[お店|グルメ|ランチ|名店|人気店]`: の and ONE character of the class
\* (the brackets make a character class, not an alternation).
noClass == {"U+304A", "U+5E97", "|", "U+30B0", "U+30EB", "U+30E1", "U+30E9", "U+30F3", "U+30C1", "U+540D", "U+4EBA", "U+6C17"}
NoSuffixLen(s, at) ==
    IF HasPrefixAt(s, <<"U+306E">>, at) /\ at + 1 <= Len(s) /\ s[at + 1] \in noClass
    THEN 2 ELSE 0

\* `[\d]+選`
PicksLen(s, at) ==
    LET d == RunLen(s, at, Digits)
    IN  IF d > 0 /\ HasPrefixAt(s, <<"U+9078">>, at + d) THEN d + 1 ELSE 0

\* strings.TrimSpace, on a string whose full-width spaces were replaced
TrimSpace(s) ==
    LET keep == {j \in 1..Len(s) : s[j] \notin SpaceChars}
    IN  IF keep = {} THEN <<>>
        ELSE SubSeq(s, CHOOSE j \in keep : \A k \in keep : j <= k,
                       CHOOSE j \in keep : \A k \in keep : j >= k)

\* len(s) of Go: the number of BYTES of the UTF-8 encoding
ByteWidth(c) == IF c \in Ascii THEN 1 ELSE IF c \in FourByteChars THEN 4 ELSE 3
RECURSIVE ByteLen(_)
ByteLen(s) == IF s = <<>> THEN 0 ELSE ByteWidth(Head(s)) + ByteLen(Tail(s))

\* `[a-zA-Z0-9\p{Han}\p{Hiragana}\p{Katakana}]`
NameChars == LowerLetters \cup UpperLetters \cup Digits \cup Han \cup Hiragana \cup Katakana
HasNameChar(s) == \E j \in 1..Len(s) : s[j] \in NameChars

RECURSIVE RemoveUsers(_, _)
RemoveUsers(s, k) ==
    IF k > Len(specificUsers) \/ s = <<>> THEN s
    ELSE RemoveUsers(ReplaceAll(s, specificUsers[k], <<>>), k + 1)

Remove(M(_, _), s) == ReplaceMatches(M, s, <<>>)
RemoveLit(s, p) == ReplaceAll(s, p, <<>>)

\* lines 114-122: keep the text before the first "|", then "-", then "/"
CutAt(s, sep) == IF Contains(s, <<sep>>) THEN SplitFirst(s, <<sep>>) ELSE s
CutSeparators(s) == CutAt(CutAt(CutAt(s, "|"), "-"), "/")

\* lines 125-130
StripAnnotations(s) ==
    LET a == Remove(HonorificLen, s)
        b == RemoveLit(a, <<"U+FF08", "U+540D", "U+7121", "U+3057", "U+FF09">>)
        c == Remove(LAMBDA t, at : AfterSpaces(LAMBDA u, j : EncloseLen(u, j, "(", ")"), t, at), b)
        d == Remove(LAMBDA t, at : AfterSpaces(LAMBDA u, j : EncloseLen(u, j, "[", "]"), t, at), c)
        e == Remove(LAMBDA t, at : EncloseLen(t, at, "U+3010", "U+3011"), d)
    IN  Remove(LAMBDA t, at : EncloseLen(t, at, "U+300A", "U+300B"), e)

\* lines 146-154
StripStopwords(s) ==
    LET a == Remove(HandleLen, s)
        b == Remove(BoundedWordLen, a)
        c == Remove(PopularLen, b)
        d == RemoveLit(c, <<"U+304A", "U+3059", "U+3059", "U+3081", "U+30E9", "U+30F3", "U+30C1">>)
        e == Remove(NoSuffixLen, d)
        f == Remove(PicksLen, e)
        g == RemoveLit(f, <<"U+3010", "U+6700", "U+65B0", "U+7248", "U+3011">>)
        h == Remove(LAMBDA t, at : EncloseLen(t, at, "U+FF5E", "U+FF5E"), g)
    IN  RemoveLit(h, <<"U+98DF", "U+3079", "U+30ED", "U+30B0", "U+307E", "U+3068", "U+3081">>)

\* lines 157-166
StripPunctuation(s) ==
    LET a == RemoveLit(s, <<".", ".", ".">>)
        b == ReplaceAll(a, <<"U+3000">>, <<" ">>)
        c == RemoveLit(b, <<"U+FF5C">>)
        d == RemoveLit(c, <<"U+30FC">>)
        e == RemoveLit(d, <<"U+FF5E">>)
        f == RemoveLit(e, <<"U+300E">>)
        g == RemoveLit(f, <<"U+300F">>)
        h == RemoveLit(g, <<"U+300C">>)
        k == RemoveLit(h, <<"U+300D">>)
    IN  RemoveLit(k, <<"\"">>)

\* line 169
CollapseSpaces(s) ==
    TrimSpace(ReplaceMatches(LAMBDA t, at : RunLen(t, at, SpaceChars), s, <<" ">>))

\* line 173: the text is rejected when it has fewer than 2 BYTES or no
\* letter, digit, ideograph or kana
Rejected(s) == ByteLen(s) < 2 \/ ~HasNameChar(s)

\* lines 114-169: the value of title when line 173 tests it
CleaningStages(title) ==
    CollapseSpaces(StripPunctuation(StripStopwords(
        RemoveUsers(StripAnnotations(CutSeparators(title)), 1))))

\* lines 173-178: "" (the empty sequence) is the rejection
Gate(cleaned) == IF Rejected(cleaned) THEN <<>> ELSE cleaned

\* extractStoreName(title)
extractStoreName(title) == Gate(CleaningStages(title))

(***************************************************************************)
(* URLs.  A URL string is modelled as the sequence of the pieces the code  *)
(* tells apart: the scheme, the pieces of the host, and the path's         *)
(* separators and segments.                                                *)
(***************************************************************************)
Scheme == "https://"
\* a piece that url.Parse rejects (an invalid percent escape)
BadEscape == "%zz"

\* net/url Parse: the error, and the Host and Path of the result
ParseFails(u) == \E k \in 1..Len(u) : u[k] = BadEscape
HasScheme(u) == Len(u) >= 1 /\ u[1] = Scheme
PathStart(u) ==
    LET sl == {k \in 1..Len(u) : u[k] = "/"}
    IN  IF sl = {} THEN Len(u) + 1 ELSE CHOOSE k \in sl : \A m \in sl : k <= m
Host(u) == IF HasScheme(u) THEN SubSeq(u, 2, PathStart(u) - 1) ELSE <<>>
Path(u) == SubSeq(u, PathStart(u), Len(u))
\* (*url.URL).String() of a parsed URL
String(u) == (IF HasScheme(u) THEN <<Scheme>> ELSE <<>>) \o Host(u) \o Path(u)
\* base.ResolveReference(ref): an absolute ref stands, a rooted path takes
\* the scheme and host of the base
ResolveReference(base, ref) ==
    IF HasScheme(ref) THEN String(ref) ELSE <<Scheme>> \o Host(base) \o Path(ref)

\* the pieces that match `[a-z]{2,8}`, `A\d{3,4}`, `A\d{3,6}`, `\d{8}|\d{10}`
StoreIds == {"13000001", "13000002", "13000003", "1300000004"}
LowerWords == {"tokyo", "matome", "review", "en", "not"}
AreaCodes == {"A1311"}
SubAreaCodes == {"A1311", "A131105"}

\* lines 53-78: the path segments that exclude a page
excludedPatterns ==
    << "dtlrvwlst", "rvwr", "user", "member", "review", "diary", "photo",
       "dtlphotolst", "dtlmenu", "dtlmap", "help", "terms", "sitemap", "rstLst",
       "word", "cond", "catLst", "aream", "wiki", "favorite", "lunch", "dinner",
       "party", "matome" >>

\* strings.Contains(path, "/seg/")
HasSegment(path, seg) == Contains(path, <<"/", seg, "/">>)

\* line 41 and line 459: strings.Contains(host, "tabelog.com")
IsTabelogHost(host) == Contains(host, <<"tabelog.com">>)

\* line 98: `tabelog\.com/[a-z]{2,8}/A\d{3,4}/A\d{3,6}/(\d{8}|\d{10})/?$`,
\* matched anywhere in the URL string and anchored at its end only
storePageRegex(str) ==
    \E s \in 1..Len(str) :
        /\ s + 8 <= Len(str)
        /\ str[s] = "tabelog.com"
        /\ str[s + 1] = "/" /\ str[s + 2] \in LowerWords
        /\ str[s + 3] = "/" /\ str[s + 4] \in AreaCodes
        /\ str[s + 5] = "/" /\ str[s + 6] \in SubAreaCodes
        /\ str[s + 7] = "/" /\ str[s + 8] \in StoreIds
        /\ \/ Len(str) = s + 8
           \/ Len(str) = s + 9 /\ str[s + 9] = "/"

\* lines 36-106
isStorePage(u) ==
    /\ IsTabelogHost(Host(u))
    /\ ~HasSegment(Path(u), "en")
    /\ \A p \in 1..Len(excludedPatterns) : ~HasSegment(Path(u), excludedPatterns[p])
    /\ storePageRegex(String(u))

\* a variant of normalizedURL that keeps the trailing "/"
normalizedURLKeepsSlash(str) == str

\* lines 216-219, 274-277, 448-451: the URL string without one trailing "/"
normalizedURL(str) == IF HasSuffix(str, <<"/">>) THEN SubSeq(str, 1, Len(str) - 1) ELSE str

(***************************************************************************)
(* The inputs of a run: the search results the provider returns and the    *)
(* anchors of the pages the run fetches.                                   *)
(***************************************************************************)
\* the most search results a response holds in the model
MaxResults == 51
\* the results from this index on are items the loop only skips
MaxRich == 3

TabelogHost == <<"tabelog.com">>
LookalikeHost == <<"not", "tabelog.com">>
OtherHost == <<"example.com">>
DetailPath(id) == <<"/", "tokyo", "/", "A1311", "/", "A131105", "/", id>>
TrailingSlash(b) == IF b THEN <<"/">> ELSE <<>>
DetailURL(host, id, slash) == <<Scheme>> \o host \o DetailPath(id) \o TrailingSlash(slash)
MatomeURL == <<Scheme, "tabelog.com", "/", "matome", "/", "123", "/">>
ListingURL == <<Scheme, "tabelog.com", "/", "tokyo", "/", "rstLst", "/">>
ReviewURL == DetailURL(TabelogHost, "13000001", TRUE) \o <<"review", "/", "123", "/">>
EnglishURL == <<Scheme, "tabelog.com", "/", "en">> \o DetailPath("13000001") \o <<"/">>
BrokenURL == <<Scheme, "tabelog.com", "/", BadEscape>>

DetailURLs == {DetailURL(TabelogHost, id, b) : id \in StoreIds, b \in BOOLEAN}
ForeignURLs == {DetailURL(LookalikeHost, "13000002", TRUE), DetailURL(OtherHost, "13000002", TRUE)}
ResultURLs == DetailURLs \cup ForeignURLs
                \cup {MatomeURL, ListingURL, ReviewURL, EnglishURL, BrokenURL}
\* href attributes: absolute URLs and rooted paths
Hrefs == DetailURLs \cup {DetailURL(OtherHost, "13000002", TRUE), ReviewURL, BrokenURL}
            \cup {DetailPath(id) \o <<"/">> : id \in StoreIds}

\* the names of the stores, by store id
StoreName(id) ==
    CASE id = "13000001" -> <<"U+9EA6", "U+5C4B">>
      [] id = "13000002" -> <<"U+9BA8", "U+51E6">>
      [] id = "13000003" -> <<"U+9EBA", "U+5BB6">>
      [] OTHER -> <<"U+8336", "U+623F">>
\* " | 食べログ", the site's brand as search results append it to a title
Brand == <<" ", "|", " ", "U+98DF", "U+3079", "U+30ED", "U+30B0">>
\* a text without any letter, digit, ideograph or kana
Junk == <<"!", "!">>
\* the stores that also occur with a text that is no name
JunkIds == {"13000001"}
IdsIn(u) == {id \in StoreIds : \E k \in 1..Len(u) : u[k] = id}
\* the titles and anchor texts a URL comes with
TextsOf(u) ==
    (IF IdsIn(u) \cap JunkIds = {} /\ IdsIn(u) # {} THEN {} ELSE {Junk})
        \cup UNION {{StoreName(id), StoreName(id) \o Brand} : id \in IdsIn(u)}
Texts == UNION {TextsOf(u) : u \in ResultURLs \cup Hrefs}

\* one item of the "results" array: wellFormed is FALSE for an item that is
\* no JSON object or lacks a string title or url (lines 427-438)
MalformedItem == [wellFormed |-> FALSE, title |-> <<>>, url |-> <<>>]
Items == {MalformedItem}
            \cup UNION {{[wellFormed |-> TRUE, title |-> t, url |-> u] : t \in TextsOf(u)} : u \in ResultURLs}
\* one element the selectors of a page match: its href attribute, if any,
\* and its text
NoHrefAnchor == [hasHref |-> FALSE, href |-> <<>>, text |-> Junk]
Anchors == {NoHrefAnchor}
            \cup UNION {{[hasHref |-> TRUE, href |-> h, text |-> t] : t \in TextsOf(h)} : h \in Hrefs}

(***************************************************************************)
(* What the loop of SearchBrave does with an item depends on the item      *)
(* through the values below only; they are computed once per item.         *)
(***************************************************************************)
\* lines 427-465 and 478, 491, without the test of seenURLs of line 453
ItemClass(item) ==
    CASE ~item.wellFormed -> "malformed"
      [] item.wellFormed /\ ParseFails(item.url) -> "unparseable"
      [] OTHER ->
            IF ~IsTabelogHost(Host(item.url)) THEN "foreign"
            ELSE IF HasSegment(Path(item.url), "matome") THEN "matome"
            ELSE IF HasSegment(Path(item.url), "rstLst") THEN "listing"
            ELSE IF isStorePage(item.url) THEN "store"
            ELSE "other"

\* lines 448-451
ItemKey(item) == normalizedURL(String(item.url))

Keyed(class) == class \notin {"malformed", "unparseable"}

ResultEntry(item) ==
    LET class == ItemClass(item)
    IN  [class |-> class,
         url   |-> IF Keyed(class) THEN String(item.url) ELSE <<>>,
         key   |-> IF Keyed(class) THEN ItemKey(item) ELSE <<>>,
         name  |-> IF class = "store" THEN extractStoreName(item.title) ELSE <<>>]
ResultEntries == {ResultEntry(item) : item \in Items}
FillerEntries == {r \in ResultEntries : r.class \in {"malformed", "unparseable", "foreign", "other"}}

\* lines 202-223 (260-281), without the test of seenURLs of line 221 (279)
AnchorEntry(base, a) ==
    IF ~a.hasHref THEN [class |-> "no_href", url |-> <<>>, key |-> <<>>, name |-> <<>>]
    ELSE IF ParseFails(a.href)
    THEN [class |-> "href_failed", url |-> <<>>, key |-> <<>>, name |-> <<>>]
    ELSE LET resolved == ResolveReference(base, a.href)
         IN  IF ~isStorePage(resolved)
             THEN [class |-> "not_store", url |-> <<>>, key |-> <<>>, name |-> <<>>]
             ELSE [class |-> "store", url |-> resolved, key |-> normalizedURL(resolved),
                   name |-> extractStoreName(a.text)]
AnchorEntries == {AnchorEntry(MatomeURL, a) : a \in Anchors}

(***************************************************************************)
(* The state of one execution of main (lines 520-572) and of the           *)
(* SearchBrave run it starts (lines 350-518).                              *)
(***************************************************************************)
VARIABLES
    pc,              \* the place of the execution
    i,               \* the index of the range loop of line 422
    seenURLs,        \* line 416, as the set of keys mapped to true
    uniqueTitles,    \* line 415
    combinedTitles,  \* line 414
    collectedCount,  \* line 417
    page,            \* the kind of page being extracted: "none", "matome", "listing"
    storeLinks,      \* the map fetchStoreLinksFromMatome / fetchLinksFromListingPage builds
    todo,            \* the keys of storeLinks the range loop has yet to visit
    ret,             \* what SearchBrave returned: <<>> or <<[combined, top]>>
    gptCalls,        \* the texts sent to the scoring service (line 595)
    saved,           \* the records db.Create stored
    fetches,         \* history: the number of http.Get calls for pages
    sources,         \* history: the key each entry of uniqueTitles was collected under
    admitted,        \* history: the first maxTitles names recorded in seenURLs, in scan order
    rejected,        \* history: the keys whose text was rejected while they were not seen
    lastLog,         \* history: the log line that told what became of the last item inspected
    textpc,          \* the place of a call of extractStoreName
    original,        \* the title the first call of extractStoreName was given
    given,           \* the argument of the call of extractStoreName
    remaining,       \* the local title after line 169
    returned,        \* what the calls of extractStoreName returned, in order
    dbpc,            \* the place of a call of ConnectDatabase
    databaseURL,     \* the environment variable DATABASE_URL
    attempt,         \* the index i of the loop of db.go line 25
    db,              \* the local db: 0 for nil, else the number of the connection
    opens,           \* history: the number of sql.Open calls
    closedConns,     \* history: the connections that were closed
    liveConns,       \* history: the connections that are open
    dbResult         \* what ConnectDatabase returned: <<>> or <<[conn, err]>>

vars == <<pc, i, seenURLs, uniqueTitles, combinedTitles, collectedCount, page, storeLinks,
          todo, ret, gptCalls, saved, fetches, sources, admitted, rejected, lastLog,
          textpc, original, given, remaining, returned,
          dbpc, databaseURL, attempt, db, opens, closedConns, liveConns, dbResult>>

maxTitles == 3
processingLimit == 50
\* "; "
Separator == <<";", " ">>

\* make(map[string]string)
EmptyMap == [k \in {} |-> <<>>]

runVars == <<seenURLs, uniqueTitles, combinedTitles, collectedCount>>
pageVars == <<page, storeLinks, todo>>
mainVars == <<ret, gptCalls, saved>>
histVars == <<sources, admitted, rejected>>
textVars == <<textpc, original, given, remaining, returned>>
dbVars == <<dbpc, databaseURL, attempt, db, opens, closedConns, liveConns, dbResult>>
\* what a run of main leaves alone
asideVars == <<textVars, dbVars>>

\* no call of extractStoreName on its own is under way
TextIdle ==
    /\ textpc = "idle"
    /\ original = <<>>
    /\ given = <<>>
    /\ remaining = <<>>
    /\ returned = <<>>

\* no call of ConnectDatabase is under way
DbIdle ==
    /\ dbpc = "idle"
    /\ databaseURL = ""
    /\ attempt = 0
    /\ db = 0
    /\ opens = 0
    /\ closedConns = {}
    /\ liveConns = {}
    /\ dbResult = <<>>

RunInit ==
    /\ pc = "main"
    /\ i = 0
    /\ seenURLs = {}
    /\ uniqueTitles = <<>>
    /\ combinedTitles = <<>>
    /\ collectedCount = 0
    /\ page = "none"
    /\ storeLinks = EmptyMap
    /\ todo = {}
    /\ ret = <<>>
    /\ gptCalls = <<>>
    /\ saved = <<>>
    /\ fetches = 0
    /\ sources = <<>>
    /\ admitted = <<>>
    /\ rejected = {}
    /\ lastLog = "none"

Init == RunInit /\ TextIdle /\ DbIdle

\* a variant of HasRoom that knows no cap
HasRoomUncapped(count) == TRUE

\* lines 471, 484, 494: room under the cap
HasRoom(count) == count < maxTitles

\* a variant of LoopStops without the test of the index
LoopStopsOnCapOnly == collectedCount >= maxTitles

\* line 423: the loop stops
LoopStops == collectedCount >= maxTitles \/ i >= processingLimit

\* strings.Join(titles, sep)
RECURSIVE Join(_, _)
Join(titles, sep) ==
    IF titles = <<>> THEN <<>>
    ELSE IF Len(titles) = 1 THEN titles[1]
    ELSE titles[1] \o sep \o Join(Tail(titles), sep)

\* lines 472-474, 485-487, 495-498: one name is collected
Collect(name, key) ==
    /\ uniqueTitles' = Append(uniqueTitles, name)
    /\ combinedTitles' = combinedTitles \o name \o Separator
    /\ collectedCount' = collectedCount + 1
    /\ sources' = Append(sources, key)

\* a variant of SeenAfter that records the key whatever the name
SeenAfterAlways(key, clean) == seenURLs \cup {key}

\* lines 224-226 and 494-497: the key is recorded when the name is not empty
SeenAfter(key, clean) == IF clean # <<>> THEN seenURLs \cup {key} ELSE seenURLs

\* history: a key enters seenURLs with a name
Admit(name) == admitted' = IF Len(admitted) < maxTitles THEN Append(admitted, name) ELSE admitted

\* lines 526-533 and 351-354: a missing DATABASE_URL or BRAVE_API_KEY, or a
\* failed gorm.Open, ends the process (log.Fatal)
StartupFatal ==
    /\ pc = "main"
    /\ pc' = "fatal"
    /\ UNCHANGED <<i, runVars, pageVars, mainVars, fetches, histVars, lastLog>>
    /\ UNCHANGED asideVars

\* lines 367-412: the request fails or the response has no usable "results"
SearchFails ==
    /\ pc = "main"
    /\ pc' = "returned"
    /\ ret' = <<[combined |-> <<>>, top |-> <<>>]>>
    /\ UNCHANGED <<i, runVars, pageVars, gptCalls, saved, fetches, histVars, lastLog>>
    /\ UNCHANGED asideVars

\* lines 396-417: the response is decoded and the loop begins
SearchReturns ==
    /\ pc = "main"
    /\ pc' = "loop"
    /\ UNCHANGED <<i, runVars, pageVars, mainVars, fetches, histVars, lastLog>>
    /\ UNCHANGED asideVars

\* line 422: the results are exhausted
ResultsExhausted ==
    /\ pc = "loop"
    /\ pc' = "after"
    /\ UNCHANGED <<i, runVars, pageVars, mainVars, fetches, histVars, lastLog>>
    /\ UNCHANGED asideVars

\* lines 423-425: there is another item, and the loop breaks
LoopBreak ==
    /\ pc = "loop"
    /\ i < MaxResults
    /\ LoopStops
    /\ pc' = "after"
    /\ UNCHANGED <<i, runVars, pageVars, mainVars, fetches, histVars, lastLog>>
    /\ UNCHANGED asideVars

\* the loop body is entered for another item
Inspecting == pc = "loop" /\ i < MaxResults /\ ~LoopStops

\* the items results[i] may be
Candidates == IF i < MaxRich THEN ResultEntries ELSE FillerEntries

\* `continue`: the next item, with nothing collected
Continue(log) ==
    /\ i' = i + 1
    /\ lastLog' = log
    /\ UNCHANGED <<pc, runVars, pageVars, mainVars, histVars>>

\* lines 427-438
SkipMalformed ==
    /\ Inspecting
    /\ \E r \in Candidates :
        /\ r.class = "malformed"
        /\ Continue("malformed")
    /\ UNCHANGED fetches
    /\ UNCHANGED asideVars

\* lines 441-445
SkipUnparseable ==
    /\ Inspecting
    /\ \E r \in Candidates :
        /\ r.class = "unparseable"
        /\ Continue("parse_failed")
    /\ UNCHANGED fetches
    /\ UNCHANGED asideVars

\* lines 453-456
SkipDuplicate ==
    /\ Inspecting
    /\ \E r \in Candidates :
        /\ Keyed(r.class)
        /\ r.key \in seenURLs
        /\ Continue("duplicate")
    /\ UNCHANGED fetches
    /\ UNCHANGED asideVars

\* the item reaches line 458 and is of the class
Fresh(r, class) == r.class = class /\ r.key \notin seenURLs

\* lines 459-462
SkipForeignHost ==
    /\ Inspecting
    /\ \E r \in Candidates :
        /\ Fresh(r, "foreign")
        /\ Continue("foreign_host")
    /\ UNCHANGED fetches
    /\ UNCHANGED asideVars

\* a variant of FetchFails in which the failure ends the loop
FetchFailsAborts ==
    /\ Inspecting
    /\ \E r \in Candidates : Fresh(r, "matome") \/ Fresh(r, "listing")
    /\ pc' = "after"
    /\ lastLog' = "fetch_failed"
    /\ fetches' = fetches + 1
    /\ UNCHANGED <<i, runVars, pageVars, mainVars, histVars>>
    /\ UNCHANGED asideVars

\* lines 465-468 and 186-197 (478-481 and 244-255): http.Get or the HTML
\* parser fails, the empty map is returned and the range loop has nothing
\* to visit
FetchFails ==
    /\ Inspecting
    /\ \E r \in Candidates :
        /\ Fresh(r, "matome") \/ Fresh(r, "listing")
        /\ Continue("fetch_failed")
    /\ fetches' = fetches + 1
    /\ UNCHANGED asideVars

\* lines 465-468 and 184-199 (478-481 and 242-257): the page is fetched and
\* parsed
FetchPage ==
    /\ Inspecting
    /\ \E r \in Candidates :
        /\ Fresh(r, "matome") \/ Fresh(r, "listing")
        /\ page' = r.class
    /\ pc' = "each"
    /\ storeLinks' = EmptyMap
    /\ fetches' = fetches + 1
    /\ lastLog' = "fetched"
    /\ UNCHANGED <<i, runVars, todo, mainVars, histVars>>
    /\ UNCHANGED asideVars

\* lines 201-235 and 259-293: the callback of Each, for one matched element
ExtractAnchor(a) ==
    IF a.class # "store"
    THEN UNCHANGED <<seenURLs, storeLinks, admitted, rejected>>
    ELSE IF a.key \in seenURLs
    THEN UNCHANGED <<seenURLs, storeLinks, admitted, rejected>>
    ELSE /\ seenURLs' = SeenAfter(a.key, a.name)
         /\ IF a.name # <<>>
            THEN /\ storeLinks' = [k \in DOMAIN storeLinks \cup {a.key} |->
                                      IF k = a.key THEN a.name ELSE storeLinks[k]]
                 /\ Admit(a.name)
                 /\ UNCHANGED rejected
            ELSE /\ rejected' = rejected \cup {a.key}
                 /\ UNCHANGED <<storeLinks, admitted>>

\* line 201 (259): Each calls the callback for the next matched element
EachAnchor(kind) ==
    /\ pc = "each"
    /\ page = kind
    /\ \E a \in AnchorEntries : ExtractAnchor(a)
    /\ UNCHANGED <<pc, i, uniqueTitles, combinedTitles, collectedCount, page, todo,
                   mainVars, fetches, sources, lastLog>>
    /\ UNCHANGED asideVars

\* lines 236 and 468-469 (294 and 481-482): the map is returned and ranged over
ReturnLinks(kind) ==
    /\ pc = "each"
    /\ page = kind
    /\ pc' = "range"
    /\ todo' = DOMAIN storeLinks
    /\ UNCHANGED <<i, runVars, page, storeLinks, mainVars, fetches, histVars, lastLog>>
    /\ UNCHANGED asideVars

\* lines 469 and 482: a Go map is ranged over in no particular order, so any
\* entry not yet visited may be the next one
NextEntries == todo

\* lines 469-477 and 482-490: one entry of the map
RangeEntry(kind) ==
    /\ pc = "range"
    /\ page = kind
    /\ \E key \in NextEntries :
        /\ todo' = todo \ {key}
        /\ IF HasRoom(collectedCount)
           THEN Collect(storeLinks[key], key)
           ELSE UNCHANGED <<uniqueTitles, combinedTitles, collectedCount, sources>>
    /\ UNCHANGED <<pc, i, seenURLs, page, storeLinks, mainVars, fetches, admitted, rejected,
                   lastLog>>
    /\ UNCHANGED asideVars

\* lines 477 and 490: the range loop ends, and with it the item
RangeDone(kind) ==
    /\ pc = "range"
    /\ page = kind
    /\ todo = {}
    /\ pc' = "loop"
    /\ i' = i + 1
    /\ page' = "none"
    /\ storeLinks' = EmptyMap
    /\ UNCHANGED <<runVars, todo, mainVars, fetches, histVars, lastLog>>
    /\ UNCHANGED asideVars

\* lines 491-504: a direct store page
DirectStore ==
    /\ Inspecting
    /\ \E r \in Candidates :
        /\ Fresh(r, "store")
        /\ IF r.name # <<>> /\ HasRoom(collectedCount)
           THEN /\ Collect(r.name, r.key)
                /\ seenURLs' = SeenAfter(r.key, r.name)
                /\ Admit(r.name)
                /\ lastLog' = "direct_added"
                /\ UNCHANGED rejected
           ELSE /\ lastLog' = "direct_empty"
                /\ rejected' = rejected \cup {r.key}
                /\ UNCHANGED <<runVars, sources, admitted>>
    /\ i' = i + 1
    /\ UNCHANGED <<pc, pageVars, mainVars, fetches>>
    /\ UNCHANGED asideVars

\* lines 505-507: a tabelog URL that is no page of the three kinds
SkipOther ==
    /\ Inspecting
    /\ \E r \in Candidates :
        /\ Fresh(r, "other")
        /\ Continue("not_target")
    /\ UNCHANGED fetches
    /\ UNCHANGED asideVars

\* lines 510-517
Return ==
    /\ pc = "after"
    /\ pc' = "returned"
    /\ ret' = IF Len(uniqueTitles) = 0
              THEN <<[combined |-> <<>>, top |-> <<>>]>>
              ELSE <<[combined |-> combinedTitles, top |-> Join(uniqueTitles, Separator)]>>
    /\ UNCHANGED <<i, runVars, pageVars, gptCalls, saved, fetches, histVars, lastLog>>
    /\ UNCHANGED asideVars

\* a variant of NothingFound that never holds
NothingFoundNever(r) == FALSE

\* line 546: main has nothing to score
NothingFound(r) == r.top = <<>> \/ r.combined = <<>>

\* lines 545-549
MainSkips ==
    /\ pc = "returned"
    /\ NothingFound(ret[1])
    /\ pc' = "done"
    /\ UNCHANGED <<i, runVars, pageVars, mainVars, fetches, histVars, lastLog>>
    /\ UNCHANGED asideVars

\* lines 552-556: a record with this topic and top title exists already
AlreadyStored ==
    /\ pc = "returned"
    /\ ~NothingFound(ret[1])
    /\ pc' = "done"
    /\ UNCHANGED <<i, runVars, pageVars, mainVars, fetches, histVars, lastLog>>
    /\ UNCHANGED asideVars

\* a variant of ScoringInput that passes the top title
ScoringInputTop(r) == r.top

\* line 558: the text main passes to analyzeWithGPT
ScoringInput(r) == r.combined

\* the scores the scoring service returns in the model
Scores == {0, 80}

\* lines 558 and 575-673: analyzeWithGPT returns 0 for a blank text and
\* sends any other text to the service as the user message
Score ==
    /\ pc = "returned"
    /\ ~NothingFound(ret[1])
    /\ pc' = "scored"
    /\ gptCalls' = IF TrimSpace(ScoringInput(ret[1])) = <<>> THEN gptCalls
                   ELSE Append(gptCalls, ScoringInput(ret[1]))
    /\ UNCHANGED <<i, runVars, pageVars, ret, saved, fetches, histVars, lastLog>>
    /\ UNCHANGED asideVars

\* lines 559-571: db.Create stores the record, or fails
Save ==
    /\ pc = "scored"
    /\ pc' = "done"
    /\ \E score \in (IF gptCalls = <<>> THEN {0} ELSE Scores), stored \in BOOLEAN :
        /\ saved' = IF stored THEN Append(saved, [topTitle |-> ret[1].top, score |-> score])
                              ELSE saved
    /\ UNCHANGED <<i, runVars, pageVars, ret, gptCalls, fetches, histVars, lastLog>>
    /\ UNCHANGED asideVars

Next ==
    \/ StartupFatal
    \/ SearchFails
    \/ SearchReturns
    \/ ResultsExhausted
    \/ LoopBreak
    \/ SkipMalformed
    \/ SkipUnparseable
    \/ SkipDuplicate
    \/ SkipForeignHost
    \/ FetchFails
    \/ FetchPage
    \/ EachAnchor("matome")
    \/ EachAnchor("listing")
    \/ ReturnLinks("matome")
    \/ ReturnLinks("listing")
    \/ RangeEntry("matome")
    \/ RangeEntry("listing")
    \/ RangeDone("matome")
    \/ RangeDone("listing")
    \/ DirectStore
    \/ SkipOther
    \/ Return
    \/ MainSkips
    \/ AlreadyStored
    \/ Score
    \/ Save

Spec == Init /\ [][Next]_vars

\* the variables stay in their ranges
TypeOK ==
    /\ pc \in {"main", "fatal", "loop", "each", "range", "after", "returned", "scored", "done"}
    /\ i \in 0..MaxResults
    /\ collectedCount \in 0..maxTitles

(***************************************************************************)
(* The properties of the run.                                              *)
(***************************************************************************)
\* the run of SearchBrave is over
Finished == pc \in {"after", "returned", "scored", "done"}

\* C1: in every reachable state of a run of SearchBrave the number of names
\* collected in uniqueTitles is at most maxTitles (3).
C1_AtMostMaxTitles == Len(uniqueTitles) <= maxTitles

\* the cap is reached while more keys than maxTitles were recorded with a name
C1_CapReachedWithMoreSeen ==
    Len(uniqueTitles) = maxTitles /\ Cardinality(seenURLs) > maxTitles

\* the URL string with a single trailing "/" stripped
CandidateKey(str) == IF HasSuffix(str, <<"/">>) THEN SubSeq(str, 1, Len(str) - 1) ELSE str

\* C2: every name of uniqueTitles was collected under a URL of its own: no
\* two names come from URLs that are equal once a single trailing "/" is
\* stripped, whether the URL was met in a hub page, a listing page or as a
\* direct result.
C2_OneNamePerKey ==
    /\ Len(sources) = Len(uniqueTitles)
    /\ \A j, k \in 1..Len(sources) :
        j # k => CandidateKey(sources[j]) # CandidateKey(sources[k])

\* a URL whose name was collected is met again, and skipped as a duplicate
C2_CollectedKeyMetAgain ==
    /\ lastLog = "duplicate"
    /\ Len(sources) >= 1
    /\ seenURLs = {sources[k] : k \in 1..Len(sources)}

\* C3: when the input produced at least 4 admissible candidates, the run
\* ends with exactly 3 names, and they are the first three candidates
\* admitted in scan order.
C3_FirstThreeInScanOrder ==
    (Finished /\ Cardinality(seenURLs) >= 4)
        => (Len(uniqueTitles) = 3 /\ uniqueTitles = admitted)

\* C4: when the search results are one hub page, the names are those of the
\* page's first anchors with a name, in the order of the markup.
C4_HubNamesInMarkupOrder ==
    (pc = "after" /\ i = 1 /\ fetches = 1 /\ Cardinality(seenURLs) >= 3)
        => uniqueTitles = admitted

C6_NothingCollectedNothingStored ==
    (pc \in {"returned", "scored", "done"} /\ uniqueTitles = <<>>)
        => /\ ret = <<[combined |-> <<>>, top |-> <<>>]>>
           /\ pc # "scored"
           /\ gptCalls = <<>>
           /\ saved = <<>>

\* main is over after a run that inspected items and collected no name
C6_EndedWithoutNames == pc = "done" /\ uniqueTitles = <<>> /\ ret # <<>> /\ i >= 1

\* C7: a key enters seenURLs only with a name that is not empty (put in the
\* map of the page, or collected from a direct result), and a key whose text
\* is rejected is not in seenURLs after the step.
C7_SeenOnlyWithName ==
    [][ /\ \A k \in seenURLs' \ seenURLs :
            \/ k \in DOMAIN storeLinks' /\ storeLinks'[k] # <<>>
            \/ /\ Len(uniqueTitles') = Len(uniqueTitles) + 1
               /\ uniqueTitles'[Len(uniqueTitles')] # <<>>
               /\ sources' = Append(sources, k)
        /\ (rejected' \ rejected) \cap seenURLs' = {}
      ]_vars

\* a key whose text was rejected was met again and recorded with a name
C7_RejectedKeyAdmittedLater == \E k \in rejected : k \in seenURLs

\* C8: the step of an item whose URL does not parse, or whose page cannot be
\* fetched or parsed, changes nothing of seenURLs, uniqueTitles,
\* combinedTitles and collectedCount, and leaves the run in the loop at the
\* next item.
C8_FailureSkipsTheItemOnly ==
    [][ ( /\ pc = "loop"
          /\ lastLog' \in {"parse_failed", "fetch_failed"}
          /\ (i' # i \/ fetches' # fetches \/ lastLog' # lastLog) )
        => ( /\ UNCHANGED <<seenURLs, uniqueTitles, combinedTitles, collectedCount>>
             /\ pc' = "loop"
             /\ i' = i + 1 )
      ]_vars

\* a page could not be fetched after a name was collected, and the run is
\* still in the loop
C8_FailedAfterCollecting ==
    pc = "loop" /\ lastLog = "fetch_failed" /\ collectedCount >= 1 /\ i < processingLimit

\* the number of search results inspected so far
Inspected == IF pc \in {"each", "range"} THEN i + 1 ELSE i

\* C9: a run inspects at most processingLimit (50) items and fetches at most
\* one page per inspected item, and once collectedCount has reached
\* maxTitles or the index has reached processingLimit no step inspects an
\* item or fetches a page.
C9_ScanStops ==
    /\ [](Inspected <= processingLimit /\ fetches <= Inspected)
    /\ [][ (collectedCount >= maxTitles \/ i >= processingLimit)
            => (Inspected' = Inspected /\ fetches' = fetches) ]_vars

\* the loop ended at the limit of the index with room under the cap, and
\* results left
C9_StoppedByLimit ==
    pc = "after" /\ i = processingLimit /\ i < MaxResults /\ collectedCount < maxTitles

\* C10: no name is collected from a URL whose host is not tabelog.com.
C10_NamesFromTabelogOnly ==
    \A k \in 1..Len(sources) : Host(sources[k]) = TabelogHost

(***************************************************************************)
(* extractStoreName on its own: one call on a title, and a second call on  *)
(* what the first returned.                                                *)
(***************************************************************************)
\* the longest of the enumerated titles
MaxLen == 3
\* the characters of the enumerated titles: a letter, an ideograph, two
\* kana, the long vowel mark, a space, a punctuation mark, an emoji
TitleChars == {"a", "U+9EA6", "U+3055", "U+3093", "U+30FC", " ", "!", "U+1F35C"}
\* "麦's Ramen | 食べログ"
RamenTitle == <<"U+9EA6", "'", "s", " ", "R", "a", "m", "e", "n", " ", "|", " ", "U+98DF", "U+3079", "U+30ED", "U+30B0">>
\* the titles extractStoreName is called with
Titles == UNION {[1..n -> TitleChars] : n \in 0..MaxLen} \cup {RamenTitle}

InitText ==
    /\ RunInit
    /\ DbIdle
    /\ textpc = "given"
    /\ original \in Titles
    /\ given = original
    /\ remaining = <<>>
    /\ returned = <<>>

\* lines 114-169: the cleaning stages
Clean ==
    /\ textpc = "given"
    /\ remaining' = CleaningStages(given)
    /\ textpc' = "cleaned"
    /\ UNCHANGED <<original, given, returned>>
    /\ UNCHANGED <<pc, i, runVars, pageVars, mainVars, fetches, histVars, lastLog, dbVars>>

\* lines 173-178: the test of the text that remains, and the return
Validate ==
    /\ textpc = "cleaned"
    /\ returned' = Append(returned, Gate(remaining))
    /\ textpc' = "returned"
    /\ UNCHANGED <<original, given, remaining>>
    /\ UNCHANGED <<pc, i, runVars, pageVars, mainVars, fetches, histVars, lastLog, dbVars>>

\* extractStoreName is called again, with the name it returned
Reapply ==
    /\ textpc = "returned"
    /\ Len(returned) = 1
    /\ returned[1] # <<>>
    /\ given' = returned[1]
    /\ textpc' = "given"
    /\ UNCHANGED <<original, remaining, returned>>
    /\ UNCHANGED <<pc, i, runVars, pageVars, mainVars, fetches, histVars, lastLog, dbVars>>

NextText == Clean \/ Validate \/ Reapply

SpecText == InitText /\ [][NextText]_vars

\* C11: extractStoreName is idempotent on the names it returns: called with
\* a name it returned (not the empty string), it returns that name.
C11_Idempotent == Len(returned) = 2 => returned[2] = returned[1]

\* C12: extractStoreName returns the empty string when the text that remains
\* after the cleaning stages has fewer than 2 characters or no letter,
\* digit, ideograph or kana, and returns that text, which is not empty,
\* otherwise.
C12_RejectsShortOrNameless ==
    textpc = "returned" =>
        LET out == returned[Len(returned)]
        IN  IF Len(remaining) < 2 \/ ~(\E n \in 1..Len(remaining) : remaining[n] \in NameChars)
            THEN out = <<>>
            ELSE out = remaining /\ out # <<>>

\* C13: for the title "麦's Ramen | 食べログ" extractStoreName returns
\* "麦's Ramen".
C13_RamenTitleKeepsRamen ==
    (original = RamenTitle /\ Len(returned) >= 1)
        => returned[1] = <<"U+9EA6", "'", "s", " ", "R", "a", "m", "e", "n">>

(***************************************************************************)
(* ConnectDatabase of internal/app/db/db.go.  A connection is known by the *)
(* number of the attempt that opened it.                                   *)
(***************************************************************************)
\* db.go line 21
maxRetries == 10
\* the values of DATABASE_URL: not set, and set
DatabaseURLs == {"", "postgres://db"}
\* return nil, fmt.Errorf(...)
NoConnection == <<[conn |-> 0, err |-> TRUE]>>

InitDb ==
    /\ RunInit
    /\ TextIdle
    /\ dbpc = "start"
    /\ databaseURL \in DatabaseURLs
    /\ attempt = 0
    /\ db = 0
    /\ opens = 0
    /\ closedConns = {}
    /\ liveConns = {}
    /\ dbResult = <<>>

\* what a step of ConnectDatabase leaves alone
notDbVars == <<pc, i, runVars, pageVars, mainVars, fetches, histVars, lastLog, textVars>>

\* db.go lines 14-17: DATABASE_URL is not set
NoDatabaseURL ==
    /\ dbpc = "start"
    /\ databaseURL = ""
    /\ dbpc' = "returned"
    /\ dbResult' = NoConnection
    /\ UNCHANGED <<databaseURL, attempt, db, opens, closedConns, liveConns>>
    /\ UNCHANGED notDbVars

\* db.go lines 19-25: the loop is entered
EnterLoop ==
    /\ dbpc = "start"
    /\ databaseURL # ""
    /\ dbpc' = "loop"
    /\ UNCHANGED <<databaseURL, attempt, db, opens, closedConns, liveConns, dbResult>>
    /\ UNCHANGED notDbVars

\* db.go lines 25-32: sql.Open fails, and the loop continues
OpenFails ==
    /\ dbpc = "loop"
    /\ attempt < maxRetries
    /\ opens' = opens + 1
    /\ db' = 0
    /\ attempt' = attempt + 1
    /\ UNCHANGED <<dbpc, databaseURL, closedConns, liveConns, dbResult>>
    /\ UNCHANGED notDbVars

\* db.go lines 25-28: sql.Open returns a connection
OpenSucceeds ==
    /\ dbpc = "loop"
    /\ attempt < maxRetries
    /\ opens' = opens + 1
    /\ db' = attempt + 1
    /\ liveConns' = liveConns \cup {attempt + 1}
    /\ dbpc' = "opened"
    /\ UNCHANGED <<databaseURL, attempt, closedConns, dbResult>>
    /\ UNCHANGED notDbVars

\* a variant of PingFails that does not close the connection
PingFailsLeaks ==
    /\ dbpc = "opened"
    /\ attempt' = attempt + 1
    /\ dbpc' = "loop"
    /\ UNCHANGED <<databaseURL, db, opens, closedConns, liveConns, dbResult>>
    /\ UNCHANGED notDbVars

\* db.go lines 35-40: db.Ping fails, the connection is closed, and the loop
\* continues
PingFails ==
    /\ dbpc = "opened"
    /\ closedConns' = closedConns \cup {db}
    /\ liveConns' = liveConns \ {db}
    /\ attempt' = attempt + 1
    /\ dbpc' = "loop"
    /\ UNCHANGED <<databaseURL, db, opens, dbResult>>
    /\ UNCHANGED notDbVars

\* db.go lines 35 and 42-44: db.Ping succeeds, and the connection is returned
PingSucceeds ==
    /\ dbpc = "opened"
    /\ dbResult' = <<[conn |-> db, err |-> FALSE]>>
    /\ dbpc' = "returned"
    /\ UNCHANGED <<databaseURL, attempt, db, opens, closedConns, liveConns>>
    /\ UNCHANGED notDbVars

\* db.go lines 25 and 47-48: the attempts are used up
GiveUp ==
    /\ dbpc = "loop"
    /\ attempt >= maxRetries
    /\ dbResult' = NoConnection
    /\ dbpc' = "returned"
    /\ UNCHANGED <<databaseURL, attempt, db, opens, closedConns, liveConns>>
    /\ UNCHANGED notDbVars

NextDb ==
    \/ NoDatabaseURL
    \/ EnterLoop
    \/ OpenFails
    \/ OpenSucceeds
    \/ PingFails
    \/ PingSucceeds
    \/ GiveUp

SpecDb == InitDb /\ [][NextDb]_vars

\* C14: ConnectDatabase calls sql.Open at most 10 times; without
\* DATABASE_URL it returns an error and no connection without any call; at
\* the start of every attempt each connection opened before is closed; a
\* returned connection is the one of the last attempt made, it is open, and
\* every attempt before it failed; and with no connection it returns an
\* error, after exactly 10 attempts, all connections closed.  Once it has
\* returned, no attempt is made.
C14_BoundedRetry ==
    /\ [](/\ opens <= maxRetries
          /\ (dbpc = "returned" /\ databaseURL = "") =>
                (opens = 0 /\ dbResult = <<[conn |-> 0, err |-> TRUE]>>)
          /\ dbpc = "loop" => (liveConns = {} /\ opens = attempt)
          /\ (dbpc = "returned" /\ databaseURL # "") =>
                \/ /\ dbResult[1].err = FALSE
                   /\ dbResult[1].conn = opens
                   /\ liveConns = {opens}
                   /\ closedConns \subseteq 1..(opens - 1)
                \/ /\ dbResult = <<[conn |-> 0, err |-> TRUE]>>
                   /\ opens = maxRetries
                   /\ liveConns = {})
    /\ [][dbpc = "returned" => (opens' = opens /\ dbResult' = dbResult)]_vars

\* a connection is returned after attempts whose ping failed and attempts
\* whose open failed
C14_ConnectedAfterFailures ==
    /\ dbpc = "returned"
    /\ dbResult[1].err = FALSE
    /\ closedConns # {}
    /\ Cardinality(closedConns) < opens - 1

====
